---- MODULE Spec2Model ----
(***************************************************************************)
(* Model of graphenebot.py: the settings store (set_setting, get_setting,  *)
(* load_group_config), the username type cache (process_user_type) and the *)
(* message handler handle_any_msg with its classification rules, the       *)
(* one-hour notice throttle and the audit-channel sends.                   *)
(*                                                                         *)
(* A Python string is a sequence of atoms: an atom is either a maximal run *)
(* of letters (a word) or one non-word symbol.  msg.text is such a         *)
(* sequence and an entity is a record [type, offset, length] over it, so   *)
(* msg.text[ent.offset:ent.offset + ent.length] is a SubSeq.               *)
(***************************************************************************)
EXTENDS Integers, Sequences, FiniteSets, TLC

VARIABLES
    dbconfig,       \* db.config: (group_id, key) -> value, the persistent settings
    group_config,   \* create_bot's group_config dict, the in-memory settings cache
    dbuser,         \* db.user: lowercased username -> type
    dbevent,        \* db.event: the events written by save_event
    delete_events,  \* create_bot's delete_events dict: (chat, user) -> time
    deleted,        \* message ids for which bot.delete_message was issued
    now,            \* datetime.utcnow(), in seconds
    msg,            \* the message given to the handler that ran last
    calls,          \* the db and transport calls the last handler issued, in order
    reasons,        \* the values the last handle_any_msg assigned to `reason`, in order
    raised,         \* the exception that left the last handler, or "none"
    answers,        \* the answers of the network during the last handle_any_msg
    op,             \* the handler that ran last
    ret,            \* the value the last direct call of a function returned
    nsets, nmsgs, nticks

vars == <<dbconfig, group_config, dbuser, dbevent, delete_events, deleted, now,
          msg, calls, reasons, raised, answers, op, ret, nsets, nmsgs, nticks>>

\* ------------------------------------------------------------------ bounds
MaxSets == 2
MaxSteps == 3
MaxMembers == 3

\* ----------------------------------------------------------------- strings
\* an optional value: None is the empty sequence, a value v is <<v>>
None == <<>>
Some(v) == <<v>>

Words == {"hi", "spamgroup", "preico", "PreICO", "steemit", "Steemit", "com",
          "evil", "example", "http", "a", "b", "x"}

IsAlpha(a) == a \in Words

\* str.lower(), atom by atom
LowerAtom(a) ==
    CASE a = "PreICO" -> "preico"
      [] a = "Steemit" -> "steemit"
      [] OTHER -> a

Lower(s) == [i \in DOMAIN s |-> LowerAtom(s[i])]

\* str.lstrip('@')
RECURSIVE LStripAt(_)
LStripAt(s) == IF s # <<>> /\ Head(s) = "@" THEN LStripAt(Tail(s)) ELSE s

\* str.startswith
StartsWith(s, p) == Len(s) >= Len(p) /\ SubSeq(s, 1, Len(p)) = p

\* s[offset:offset + length]
Slice(s, offset, length) ==
    SubSeq(s, offset + 1, IF offset + length > Len(s) THEN Len(s) ELSE offset + length)

\* the index of the first atom of s at or after i that is in stop, or Len(s) + 1
RECURSIVE FindStop(_, _, _)
FindStop(s, i, stop) ==
    IF i > Len(s) THEN Len(s) + 1
    ELSE IF s[i] \in stop THEN i
    ELSE FindStop(s, i + 1, stop)

\* urlparse(url).netloc: after an optional "scheme:", the text between a
\* leading "//" and the next "/", "?" or "#"; empty without the "//".
Netloc(url) ==
    LET rest == IF Len(url) >= 2 /\ IsAlpha(url[1]) /\ url[2] = ":"
                THEN SubSeq(url, 3, Len(url)) ELSE url
    IN IF StartsWith(rest, <<"/", "/">>)
       THEN SubSeq(rest, 3, FindStop(rest, 3, {"/", "?", "#"}) - 1)
       ELSE <<>>

USERNAME_EXCEPTIONS == {<<"blockchainschool">>, <<"preico">>, <<"tnam0rken_chanel">>}

\* the lines of the files nongraphenelist and whitelist
LINKS_EXCEPTIONS == {<<"steemit", ".", "com">>, <<"golos", ".", "io">>,
                     <<"whaleshares", ".", "io">>}

\* ---------------------------------------------------------------- settings
GROUP_SETTING_KEYS == {"publog", "log_channel_id", "logformat", "channels", "groups",
                       "links", "forwarded", "emails", "kick"}

BoolKeys == {"publog", "channels", "groups", "links", "forwarded", "emails", "kick"}

GroupId == 1
ChannelId == 2
Users == {10, 11}

\* bot.get_chat_administrators(chat_id), as user ids
ChatAdministrators(chat_id) == {10}

\* load_group_config(db)
load_group_config(db) == [k \in DOMAIN db |-> db[k]]

\* a dict with d[k] = v
DictSet(d, k, v) == [x \in DOMAIN d \cup {k} |-> IF x = k THEN v ELSE d[x]]

\* get_setting(group_config, group_id, key, default)
get_setting(cfg, group_id, key, default) ==
    IF <<group_id, key>> \in DOMAIN cfg THEN cfg[<<group_id, key>>] ELSE default

\* get_setting(group_config, group_id, key, default) called with any key: the
\* assertion of line 125, then the value
get_setting_call(cfg, group_id, key, default) ==
    IF key \notin GROUP_SETTING_KEYS
    THEN [raised |-> "AssertionError", ret |-> None]
    ELSE [raised |-> "none", ret |-> Some(get_setting(cfg, group_id, key, default))]

\* set_setting without the assertion on the key
set_setting_unchecked(db, cfg, group_id, key, val, dbOk) ==
    IF ~dbOk
    THEN [db |-> db, cfg |-> cfg, raised |-> "PyMongoError"]
    ELSE [db |-> DictSet(db, <<group_id, key>>, val),
          cfg |-> DictSet(cfg, <<group_id, key>>, val), raised |-> "none"]

\* the value written only when the key has no value yet
set_setting_setdefault(db, cfg, group_id, key, val, dbOk) ==
    IF key \notin GROUP_SETTING_KEYS
    THEN [db |-> db, cfg |-> cfg, raised |-> "AssertionError"]
    ELSE IF ~dbOk
    THEN [db |-> db, cfg |-> cfg, raised |-> "PyMongoError"]
    ELSE IF <<group_id, key>> \in DOMAIN cfg
    THEN [db |-> db, cfg |-> cfg, raised |-> "none"]
    ELSE [db |-> DictSet(db, <<group_id, key>>, val),
          cfg |-> DictSet(cfg, <<group_id, key>>, val), raised |-> "none"]

\* the cache written before the persistence call
set_setting_cache_first(db, cfg, group_id, key, val, dbOk) ==
    IF key \notin GROUP_SETTING_KEYS
    THEN [db |-> db, cfg |-> cfg, raised |-> "AssertionError"]
    ELSE IF ~dbOk
    THEN [db |-> db, cfg |-> DictSet(cfg, <<group_id, key>>, val), raised |-> "PyMongoError"]
    ELSE [db |-> DictSet(db, <<group_id, key>>, val),
          cfg |-> DictSet(cfg, <<group_id, key>>, val), raised |-> "none"]

\* set_setting(db, group_config, group_id, key, val) with the outcome of
\* db.config.find_one_and_update: the new db.config, the new cache and the
\* exception raised
set_setting(db, cfg, group_id, key, val, dbOk) ==
    IF key \notin GROUP_SETTING_KEYS
    THEN [db |-> db, cfg |-> cfg, raised |-> "AssertionError"]
    ELSE IF ~dbOk
    THEN [db |-> db, cfg |-> cfg, raised |-> "PyMongoError"]
    ELSE [db |-> DictSet(db, <<group_id, key>>, val),
          cfg |-> DictSet(cfg, <<group_id, key>>, val), raised |-> "none"]

\* ---------------------------------------------------------------- messages
\* A token is a piece of text with the entity type Telegram marks it with
\* ("plain": no entity).  A text is its tokens joined by single spaces.
Tok(type, s) == [type |-> type, s |-> s]

RECURSIVE BuildText(_, _, _)
BuildText(toks, text, ents) ==
    IF toks = <<>> THEN [text |-> text, entities |-> ents]
    ELSE LET t == Head(toks)
             sep == IF text = <<>> THEN <<>> ELSE <<" ">>
             off == Len(text) + Len(sep)
         IN BuildText(Tail(toks), text \o sep \o t.s,
                      IF t.type = "plain" THEN ents
                      ELSE Append(ents, [type |-> t.type, offset |-> off,
                                         length |-> Len(t.s)]))

\* the Message object telebot hands to the handlers; text and caption are
\* optional, forward stands for msg.forward_from or msg.forward_from_chat
Message(id, from, toks, hasText, forward, caption) ==
    LET b == BuildText(toks, <<>>, <<>>)
    IN [message_id |-> id, chat_id |-> GroupId, from_user |-> from,
        text |-> IF hasText THEN Some(b.text) ELSE None,
        entities |-> IF hasText THEN b.entities ELSE <<>>,
        forward |-> forward,
        caption |-> caption]

NoMsg == [message_id |-> 0]

\* ------------------------------------------------------ username resolution
FetchResults == {"group", "channel", "user", ""}

\* the usernames that exist on the network; fetch_user_type of any other
\* name yields the empty result
NetNames == {<<"spamgroup">>, <<"preico">>}

\* fetch_user_type(username) under the network answers net
fetch_user_type(net, username) ==
    IF username \in DOMAIN net THEN net[username] ELSE ""

\* the result of the lookup cached whatever it is
process_user_type_caches_empty(cache, net, username) ==
    LET u == Lower(username)
    IN IF u \in DOMAIN cache
       THEN [type |-> cache[u], cache |-> cache, fetched |-> FALSE]
       ELSE LET user_type == fetch_user_type(net, u)
            IN [type |-> user_type, cache |-> DictSet(cache, u, user_type),
                fetched |-> TRUE]

\* the username looked up and stored as given, not lowercased
process_user_type_case_sensitive(cache, net, username) ==
    IF username \in DOMAIN cache
    THEN [type |-> cache[username], cache |-> cache, fetched |-> FALSE]
    ELSE LET user_type == fetch_user_type(net, Lower(username))
         IN [type |-> user_type,
             cache |-> IF user_type # "" THEN DictSet(cache, username, user_type)
                       ELSE cache,
             fetched |-> TRUE]

\* process_user_type(db, username): the type returned, the new db.user and
\* whether fetch_user_type was called
process_user_type(cache, net, username) ==
    LET u == Lower(username)
    IN IF u \in DOMAIN cache
       THEN [type |-> cache[u], cache |-> cache, fetched |-> FALSE]
       ELSE LET user_type == fetch_user_type(net, u)
            IN [type |-> user_type,
                cache |-> IF user_type # "" THEN DictSet(cache, u, user_type)
                          ELSE cache,
                fetched |-> TRUE]

\* ------------------------------------------------------------ classification
\* the state of handle_any_msg while it classifies: to_delete, the values
\* assigned to `reason` so far (the last one is the value of `reason`), the
\* db.user collection and the exception raised
Ctx(to_delete, rs, cache, exc) ==
    [to_delete |-> to_delete, reasons |-> rs, cache |-> cache, raised |-> exc]

\* the check of a resolved mention passing for any non-empty type
GroupChannelReasonAnyType(cfg, chat_id, user_type, prefix) ==
    IF user_type \in {"group", "user"} /\ get_setting(cfg, chat_id, "groups", TRUE)
    THEN prefix \o "@-link to group"
    ELSE IF user_type = "channel" /\ get_setting(cfg, chat_id, "channels", TRUE)
    THEN prefix \o "@-link to channel"
    ELSE ""

\* lines 366-373, 394-401: the group/channel check of a resolved mention, as
\* the reason to flag with, or "" for no flag
GroupChannelReason(cfg, chat_id, user_type, prefix) ==
    IF user_type = "group" /\ get_setting(cfg, chat_id, "groups", TRUE)
    THEN prefix \o "@-link to group"
    ELSE IF user_type = "channel" /\ get_setting(cfg, chat_id, "channels", TRUE)
    THEN prefix \o "@-link to channel"
    ELSE ""

\* lines 349-352: the host of the url an entity covers
EntityHost(text, ent) ==
    LET url == Slice(text, ent.offset, ent.length)
        full == IF ~StartsWith(url, <<"/", "/">>) /\ ~StartsWith(url, <<"http">>)
                THEN <<"/", "/">> \o url ELSE url
    IN Lower(Netloc(full))

\* lines 347-373: the loop over msg.entities from entity i on
RECURSIVE EntityLoop(_, _, _, _, _)
EntityLoop(m, cfg, net, cache, i) ==
    IF i > Len(m.entities) THEN Ctx(FALSE, <<>>, cache, "none")
    ELSE
    LET ent == m.entities[i]
        text == m.text[1]
    IN IF ent.type \in {"url", "text_link"} /\ get_setting(cfg, m.chat_id, "links", TRUE)
       THEN IF EntityHost(text, ent) \in LINKS_EXCEPTIONS
            THEN EntityLoop(m, cfg, net, cache, i + 1)
            ELSE Ctx(TRUE, <<"external link">>, cache, "none")
       ELSE IF ent.type = "email" /\ get_setting(cfg, m.chat_id, "emails", TRUE)
       THEN Ctx(TRUE, <<"email">>, cache, "none")
       ELSE IF ent.type = "mention"
       THEN LET username == LStripAt(Slice(text, ent.offset, ent.length))
            IN IF Lower(username) \in USERNAME_EXCEPTIONS
               THEN EntityLoop(m, cfg, net, cache, i + 1)
               ELSE LET r == process_user_type(cache, net, username)
                        why == GroupChannelReason(cfg, m.chat_id, r.type, "")
                    IN IF why # "" THEN Ctx(TRUE, <<why>>, r.cache, "none")
                       ELSE EntityLoop(m, cfg, net, r.cache, i + 1)
       ELSE EntityLoop(m, cfg, net, cache, i + 1)

\* a non-word character (\W) of the atoms in use
NonWord(a) == ~IsAlpha(a)

\* line 375: re.search(r'(?:^|\W)\@\s([a-zA-Z]+)(?:$|\W)', text): whether the
\* pattern matches with its "@" at index i
MentionAt(text, i) ==
    /\ i + 2 <= Len(text)
    /\ (i = 1 \/ NonWord(text[i - 1]))
    /\ text[i] = "@"
    /\ text[i + 1] = " "
    /\ IsAlpha(text[i + 2])
    /\ (i + 2 = Len(text) \/ NonWord(text[i + 3]))

\* mention.group(1) of the leftmost match, or None
RECURSIVE SearchMention(_, _)
SearchMention(text, i) ==
    IF i > Len(text) THEN None
    ELSE IF MentionAt(text, i) THEN Some(<<text[i + 2]>>)
    ELSE SearchMention(text, i + 1)

\* lines 374-388: the free-text "@ username" rule and the forwarded rule
FallbackAndForward(m, cfg, net, c) ==
    IF m.text = None THEN Ctx(FALSE, c.reasons, c.cache, "TypeError")
    ELSE
    LET mention == SearchMention(m.text[1], 1)
        lookup == mention # None /\ Lower(mention[1]) \notin USERNAME_EXCEPTIONS
        r == IF lookup THEN process_user_type(c.cache, net, mention[1])
             ELSE [type |-> "", cache |-> c.cache]
        grp == lookup /\ r.type = "group" /\ get_setting(cfg, m.chat_id, "groups", TRUE)
        chn == lookup /\ r.type = "channel" /\ get_setting(cfg, m.chat_id, "channels", TRUE)
        fwd == m.forward /\ get_setting(cfg, m.chat_id, "forwarded", TRUE)
        rs == (IF grp THEN <<"@-link to group">> ELSE <<>>)
              \o (IF chn THEN <<"@-link to channel">> ELSE <<>>)
              \o (IF fwd THEN <<"forwarded">> ELSE <<>>)
    IN Ctx(grp \/ chn \/ fwd, c.reasons \o rs, r.cache, "none")

\* util.find_username_links(text): the "@name" mentions of the text, in order
RECURSIVE find_username_links(_)
find_username_links(text) ==
    IF Len(text) < 2 THEN <<>>
    ELSE IF text[1] = "@" /\ IsAlpha(text[2])
    THEN <<SubSeq(text, 1, 2)>> \o find_username_links(SubSeq(text, 3, Len(text)))
    ELSE find_username_links(Tail(text))

\* util.find_external_links(text): the bare links "host.tld" of the text
RECURSIVE find_external_links(_)
find_external_links(text) ==
    IF Len(text) < 3 THEN <<>>
    ELSE IF IsAlpha(text[1]) /\ text[2] = "." /\ IsAlpha(text[3])
    THEN <<SubSeq(text, 1, 3)>> \o find_external_links(SubSeq(text, 4, Len(text)))
    ELSE find_external_links(Tail(text))

\* msg.caption or ''
CaptionOrEmpty(m) == IF m.caption = None THEN <<>> ELSE m.caption[1]

\* lines 391-401: the loop over the caption's usernames from index i on
RECURSIVE CaptionLoop(_, _, _, _, _, _)
CaptionLoop(m, cfg, net, c, usernames, i) ==
    IF i > Len(usernames) THEN c
    ELSE LET r == process_user_type(c.cache, net, LStripAt(usernames[i]))
             why == GroupChannelReason(cfg, m.chat_id, r.type, "caption ")
         IN IF why # "" THEN Ctx(TRUE, c.reasons \o <<why>>, r.cache, "none")
            ELSE CaptionLoop(m, cfg, net, Ctx(FALSE, c.reasons, r.cache, "none"),
                             usernames, i + 1)

\* the caption link rule without the check of the links setting
CaptionLinksUngated(m, cfg, c) ==
    IF find_external_links(CaptionOrEmpty(m)) # <<>>
    THEN Ctx(TRUE, c.reasons \o <<"caption external link">>, c.cache, "none")
    ELSE c

\* lines 402-405: the caption link rule
CaptionLinks(m, cfg, c) ==
    IF find_external_links(CaptionOrEmpty(m)) # <<>>
       /\ get_setting(cfg, m.chat_id, "links", TRUE)
    THEN Ctx(TRUE, c.reasons \o <<"caption external link">>, c.cache, "none")
    ELSE c

\* line 374: `if not to_delete:` before the free-text and forwarded rules
IfUnmatched4(m, cfg, net, c) ==
    IF ~c.to_delete THEN FallbackAndForward(m, cfg, net, c) ELSE c

\* line 389: `if not to_delete:` before the caption mention rule; an exception
\* raised before it has ended the handler
IfUnmatched6(m, cfg, net, c) ==
    IF c.raised = "none" /\ ~c.to_delete
    THEN CaptionLoop(m, cfg, net, c, find_username_links(CaptionOrEmpty(m)), 1)
    ELSE c

\* line 402: `if not to_delete:` before the caption link rule
IfUnmatched7(m, cfg, c) ==
    IF c.raised = "none" /\ ~c.to_delete THEN CaptionLinks(m, cfg, c) ELSE c

\* lines 346-405: the classification of handle_any_msg
Classify(m, cfg, net, cache) ==
    IfUnmatched7(m, cfg,
        IfUnmatched6(m, cfg, net,
            IfUnmatched4(m, cfg, net, EntityLoop(m, cfg, net, cache, 1))))

\* -------------------------------------------------------------- side effects
\* timedelta(hours=1), in seconds
Hour == 3600

CallNames == {"save_event", "send_notice", "forward_message", "send_json",
              "send_simple", "delete_message"}

Call(name, failing) == [call |-> name, ok |-> name \notin failing]

\* no exemption of administrators
NobodyIsAdmin(m) == FALSE

\* line 407: the sender is an administrator of the chat
IsAdmin(m) == m.from_user \in ChatAdministrators(m.chat_id)

\* save_event called without reason=reason
EventWithoutReason(m, reason, t) ==
    [message_id |-> m.message_id, chat_id |-> m.chat_id, from_user |-> m.from_user,
     date |-> t, type |-> "delete_msg", reason |-> ""]

\* save_event(db, 'delete_msg', msg, reason=reason): the event saved at time t
DeletionEvent(m, reason, t) ==
    [message_id |-> m.message_id, chat_id |-> m.chat_id, from_user |-> m.from_user,
     date |-> t, type |-> "delete_msg", reason |-> reason]

\* the window compared with <= instead of <
NoticeDueInclusive(throttle, key, t) ==
    key \notin DOMAIN throttle \/ throttle[key] <= t - Hour

\* lines 426-429: the throttle lets a notice through
NoticeDue(throttle, key, t) ==
    key \notin DOMAIN throttle \/ throttle[key] < t - Hour

\* every requested format in a try block of its own
RECURSIVE AuditSendsIsolated(_, _, _)
AuditSendsIsolated(order, formats, failing) ==
    IF order = <<>> THEN <<>>
    ELSE IF Head(order).format \notin formats
    THEN AuditSendsIsolated(Tail(order), formats, failing)
    ELSE <<Call(Head(order).call, failing)>>
         \o AuditSendsIsolated(Tail(order), formats, failing)

\* lines 455-476: the sends to one log channel, in the order of the code, up
\* to the first one that fails (the except clause of line 477 ends them)
RECURSIVE AuditSends(_, _, _)
AuditSends(order, formats, failing) ==
    IF order = <<>> THEN <<>>
    ELSE IF Head(order).format \notin formats
    THEN AuditSends(Tail(order), formats, failing)
    ELSE IF Head(order).call \in failing
    THEN <<Call(Head(order).call, failing)>>
    ELSE <<Call(Head(order).call, failing)>> \o AuditSends(Tail(order), formats, failing)

AuditOrder == << [format |-> "forward", call |-> "forward_message"],
                 [format |-> "json", call |-> "send_json"],
                 [format |-> "simple", call |-> "send_simple"] >>

\* lines 434-481: the sends to the log channel of the chat
AuditDispatch(m, cfg, failing) ==
    LET channel_id == get_setting(cfg, m.chat_id, "log_channel_id", None)
    IN IF channel_id = None THEN <<>>
       ELSE AuditSends(AuditOrder,
                       get_setting(cfg, channel_id[1], "logformat", {"simple"}),
                       failing)

\* the throttle entry written inside the branch that sends the notice
RecordOnlyWhenNotified(throttle, key, t, noticeSent) ==
    IF noticeSent THEN DictSet(throttle, key, t) ELSE throttle

\* line 432: delete_events[event_key] = datetime.utcnow()
RecordDeletion(throttle, key, t, noticeSent) == DictSet(throttle, key, t)

\* delete_message as the last statement of the try block, not in a finally
DeletesAfterTry(tryRaised) == tryRaised = "none"

\* lines 482-483: the finally clause issues delete_message whatever the try
\* block raised
FinallyDeletes(tryRaised) == TRUE

\* save_event in a try block of its own: its failure is swallowed and the
\* notice and the audit sends go on
SideEffectsSaveIsolated(m, cfg, events, throttle, t, failing, reason) ==
    LET key == <<m.chat_id, m.from_user>>
        saveOk == "save_event" \notin failing
        notice == get_setting(cfg, m.chat_id, "publog", TRUE) /\ NoticeDue(throttle, key, t)
        noticeOk == "send_notice" \notin failing
        recorded == notice => noticeOk
        tryRaised == IF notice /\ ~noticeOk THEN "ApiException" ELSE "none"
        tryCalls == <<Call("save_event", failing)>>
                    \o (IF notice THEN <<Call("send_notice", failing)>> ELSE <<>>)
                    \o (IF recorded THEN AuditDispatch(m, cfg, failing) ELSE <<>>)
    IN [events |-> IF saveOk THEN events \cup {DeletionEvent(m, reason, t)} ELSE events,
        throttle |-> IF recorded THEN RecordDeletion(throttle, key, t, notice)
                     ELSE throttle,
        calls |-> tryCalls \o <<Call("delete_message", failing)>>,
        raised |-> IF "delete_message" \in failing THEN "ApiException" ELSE tryRaised]

\* lines 410-483: the try/finally of a flagged message of a non-administrator
SideEffects(m, cfg, events, throttle, t, failing, reason) ==
    LET key == <<m.chat_id, m.from_user>>
        saveOk == "save_event" \notin failing
        notice == saveOk /\ get_setting(cfg, m.chat_id, "publog", TRUE)
                         /\ NoticeDue(throttle, key, t)
        noticeOk == "send_notice" \notin failing
        recorded == saveOk /\ (notice => noticeOk)
        tryRaised == IF ~saveOk THEN "PyMongoError"
                     ELSE IF notice /\ ~noticeOk THEN "ApiException" ELSE "none"
        tryCalls == <<Call("save_event", failing)>>
                    \o (IF notice THEN <<Call("send_notice", failing)>> ELSE <<>>)
                    \o (IF recorded THEN AuditDispatch(m, cfg, failing) ELSE <<>>)
        del == FinallyDeletes(tryRaised)
    IN [events |-> IF saveOk THEN events \cup {DeletionEvent(m, reason, t)} ELSE events,
        throttle |-> IF recorded THEN RecordDeletion(throttle, key, t, notice)
                     ELSE throttle,
        calls |-> tryCalls \o (IF del THEN <<Call("delete_message", failing)>> ELSE <<>>),
        raised |-> IF del /\ "delete_message" \in failing THEN "ApiException"
                   ELSE tryRaised]

\* lines 406-408: the side effects happen for a message classified as
\* to-delete whose sender is not an administrator
Acts(m, c) == c.raised = "none" /\ c.to_delete /\ ~IsAdmin(m)

\* the outcome of handle_any_msg from the classification c and the effects e
Outcome(c, e) ==
    [cache |-> c.cache, reasons |-> c.reasons, to_delete |-> c.to_delete,
     events |-> e.events, throttle |-> e.throttle, calls |-> e.calls,
     raised |-> e.raised]

\* lines 406-483: handle_any_msg after the classification c
AfterClassify(m, cfg, events, throttle, t, failing, c) ==
    Outcome(c,
        IF Acts(m, c)
        THEN SideEffects(m, cfg, events, throttle, t, failing, c.reasons[Len(c.reasons)])
        ELSE [events |-> events, throttle |-> throttle, calls |-> <<>>,
              raised |-> c.raised])

\* lines 345-483: handle_any_msg on message m, with the network answers net
\* and the set of calls that fail
Handle(m, cfg, cache, events, throttle, t, net, failing) ==
    AfterClassify(m, cfg, events, throttle, t, failing, Classify(m, cfg, net, cache))

\* the elements of a sequence
Range(seq) == {seq[i] : i \in DOMAIN seq}

\* the names of the calls in a sequence of calls
CallSet(cs) == {cs[i].call : i \in DOMAIN cs}

\* bot.delete_message was issued among the calls
IssuedDelete(cs) == \E i \in DOMAIN cs : cs[i].call = "delete_message"

\* ------------------------------------------------------------------- inputs
EmptyDict == [x \in {} |-> x]

THi == Tok("plain", <<"hi">>)
TUrl == Tok("url", <<"http", ":", "/", "/", "evil", ".", "example", "/", "x">>)
TUrlExcepted == Tok("url", <<"Steemit", ".", "com">>)
TTextLink == Tok("text_link", <<"evil", ".", "example">>)
TEmail == Tok("email", <<"a", "@", "b", ".", "com">>)
TMention == Tok("mention", <<"@", "spamgroup">>)
TMentionExcepted == Tok("mention", <<"@", "PreICO">>)
TAt == Tok("plain", <<"@">>)
TName == Tok("plain", <<"spamgroup">>)

Tokens == {THi, TUrl, TUrlExcepted, TTextLink, TEmail, TMention, TMentionExcepted,
           TAt, TName}

\* the texts of the classification runs: one or two tokens
TokenLists == {<<t>> : t \in Tokens} \cup {<<t, u>> : t \in Tokens, u \in Tokens}

Captions == {None, Some(<<"hi">>), Some(<<"hi", " ", "@", "spamgroup">>),
             Some(<<"evil", ".", "example">>), Some(<<"steemit", ".", "com">>),
             Some(<<"@", "PreICO">>)}

\* the messages of the classification runs
ClassMsgs(id) ==
    {Message(id, from, toks, TRUE, fwd, cap) :
        from \in {11}, toks \in TokenLists, fwd \in BOOLEAN, cap \in Captions}
    \cup {Message(id, from, <<>>, FALSE, fwd, cap) :
        from \in {11}, fwd \in BOOLEAN, cap \in Captions}

\* the messages of the pipeline runs: a plain text, a text with a link, and
\* a media message with a caption and no text
PipeMsgs(id) ==
    {Message(id, from, toks, TRUE, FALSE, None) :
        from \in Users, toks \in {<<THi>>, <<TUrl>>}}
    \cup {Message(id, from, <<>>, FALSE, FALSE, Some(<<"hi", " ", "@", "spamgroup">>)) :
        from \in Users}

\* the word atoms of a message, lowercased
WordsOf(m) ==
    LET t == IF m.text = None THEN <<>> ELSE m.text[1]
        c == CaptionOrEmpty(m)
    IN {LowerAtom(t[i]) : i \in DOMAIN t} \cup {LowerAtom(c[i]) : i \in DOMAIN c}

\* the answers of the network to fetch_user_type during one handler; a name
\* the message does not contain is never asked for
NetsFor(m) ==
    {net \in [NetNames -> FetchResults] :
        \A u \in NetNames : u[1] \notin WordsOf(m) => net[u] = ""}

\* the sets of calls that fail during one handler; a call that is not issued
\* cannot fail
FailSetsFor(m, cfg, cache, throttle, t, net) ==
    IF Acts(m, Classify(m, cfg, net, cache))
    THEN {f \in SUBSET CallNames :
            f \subseteq CallSet(SideEffects(m, cfg, {}, throttle, t, f, "").calls)}
    ELSE {{}}

LogFormats == SUBSET {"forward", "json", "simple"} \ {{}}

\* a db.config collection as a dict
Store(publog, channel, formats) ==
    LET p == IF publog = None THEN {} ELSE {<<GroupId, "publog">>}
        c == IF channel = None THEN {} ELSE {<<GroupId, "log_channel_id">>}
        f == IF formats = None THEN {} ELSE {<<ChannelId, "logformat">>}
    IN [k \in p \cup c \cup f |->
          IF k[2] = "publog" THEN publog[1]
          ELSE IF k[2] = "log_channel_id" THEN channel
          ELSE formats[1]]

\* the db.config collections the pipeline runs start from
PipeStores ==
    {Store(p, None, None) : p \in {None, Some(FALSE)}}
    \cup {Store(p, Some(ChannelId), f) :
            p \in {None, Some(FALSE)}, f \in {None} \cup {Some(x) : x \in LogFormats}}

\* the rule settings that are off in a chat, as a db.config collection
RulesOff(keys) == [k \in {<<GroupId, key>> : key \in keys} |-> FALSE]

RuleKeys == {"links", "emails", "groups", "channels", "forwarded"}

ClassStores == {RulesOff(keys) : keys \in SUBSET RuleKeys}

\* the seconds that pass between two handlers
Deltas == {3599, 3600, 3601}

\* ------------------------------------------------------------------ actions
\* create_bot(api_token, db) on a db with the collection store in db.config
Start(store) ==
    /\ dbconfig = store
    /\ group_config = load_group_config(store)
    /\ dbuser = EmptyDict
    /\ dbevent = {}
    /\ delete_events = EmptyDict
    /\ deleted = {}
    /\ now = 0
    /\ msg = NoMsg
    /\ calls = <<>>
    /\ reasons = <<>>
    /\ raised = "none"
    /\ answers = EmptyDict
    /\ op = "create_bot"
    /\ ret = None
    /\ nsets = 0
    /\ nmsgs = 0
    /\ nticks = 0

Init == \E store \in PipeStores : Start(store)

\* handle_any_msg(msg)
Handled(m, net, h) ==
    /\ dbuser' = h.cache
    /\ dbevent' = h.events
    /\ delete_events' = h.throttle
    /\ deleted' = IF \E i \in DOMAIN h.calls :
                        h.calls[i] = [call |-> "delete_message", ok |-> TRUE]
                  THEN deleted \cup {m.message_id} ELSE deleted
    /\ msg' = m
    /\ calls' = h.calls
    /\ reasons' = h.reasons
    /\ raised' = h.raised
    /\ answers' = net
    /\ op' = "handle_any_msg"
    /\ nmsgs' = nmsgs + 1
    /\ UNCHANGED <<dbconfig, group_config, now, ret, nsets, nticks>>

HandleAnyMsg(m, net, failing) ==
    Handled(m, net,
            Handle(m, group_config, dbuser, dbevent, delete_events, now, net, failing))

PipeMsg ==
    /\ nmsgs + nticks < MaxSteps
    /\ \E m \in PipeMsgs(nmsgs + 1) :
       \E net \in NetsFor(m) :
       \E failing \in FailSetsFor(m, group_config, dbuser, delete_events, now, net) :
          HandleAnyMsg(m, net, failing)

\* time passes between two handlers
Tick ==
    /\ nmsgs + nticks < MaxSteps
    /\ \E d \in Deltas : now' = now + d
    /\ nticks' = nticks + 1
    /\ UNCHANGED <<dbconfig, group_config, dbuser, dbevent, delete_events, deleted,
                   msg, calls, reasons, raised, answers, op, ret, nsets, nmsgs>>

Next == PipeMsg \/ Tick

Spec == Init /\ [][Next]_vars

\* one message classified under each combination of the rule settings
InitClassify == \E store \in ClassStores : Start(store)

ClassMsg ==
    /\ nmsgs = 0
    /\ \E m \in ClassMsgs(nmsgs + 1) :
       \E net \in NetsFor(m) : HandleAnyMsg(m, net, {})

NextClassify == ClassMsg

SpecClassify == InitClassify /\ [][NextClassify]_vars

\* --------------------------------------------------------- settings handlers
Reply(text) == [call |-> "reply_to", ok |-> TRUE, text |-> text]

DbUpdate(dbOk) == [call |-> "find_one_and_update", ok |-> dbOk]

\* line 257: str(get_setting(group_config, msg.chat.id, key)); the default of
\* get_setting is None
StrSetting(cfg, group_id, key) ==
    IF <<group_id, key>> \notin DOMAIN cfg THEN "None"
    ELSE IF get_setting(cfg, group_id, key, FALSE) THEN "True" ELSE "False"

\* a handler that leaves the settings alone and answers with the calls cs
Answer(name, cs) ==
    /\ op' = name
    /\ calls' = cs
    /\ raised' = "none"
    /\ UNCHANGED <<dbconfig, group_config, nsets>>

\* a handler that calls set_setting(db, group_config, group_id, key, val) and
\* then answers with text
Setting(name, group_id, key, val, dbOk, text) ==
    LET r == set_setting(dbconfig, group_config, group_id, key, val, dbOk)
    IN /\ nsets < MaxSets
       /\ nsets' = nsets + 1
       /\ op' = name
       /\ dbconfig' = r.db
       /\ group_config' = r.cfg
       /\ raised' = r.raised
       /\ calls' = (IF r.raised = "AssertionError" THEN <<>> ELSE <<DbUpdate(dbOk)>>)
                   \o (IF r.raised = "none" THEN <<Reply(text)>> ELSE <<>>)

OtherVars ==
    <<dbuser, dbevent, delete_events, deleted, now, msg, reasons, answers, ret, nmsgs,
      nticks>>

\* lines 231-267: handle_set_get on "/graphene_set key=val" or "/graphene_get key"
HandleSetGet(user, action, key, val, dbOk) ==
    /\ UNCHANGED OtherVars
    /\ IF user \notin ChatAdministrators(GroupId)
       THEN Answer("handle_set_get", <<Reply("Access denied")>>)
       ELSE IF action = "GET"
       THEN Answer("handle_set_get", <<Reply(StrSetting(group_config, GroupId, key))>>)
       ELSE IF val \in {"yes", "no"}
       THEN Setting("handle_set_get", GroupId, key, val = "yes", dbOk, "Set")
       ELSE Answer("handle_set_get", <<Reply("Invalid value")>>)

\* lines 269-286: handle_setlogformat on a post of the log channel
HandleSetlogformat(user, formats, dbOk) ==
    /\ UNCHANGED OtherVars
    /\ IF user \notin ChatAdministrators(ChannelId)
       THEN Answer("handle_setlogformat", <<Reply("Access denied")>>)
       ELSE IF \E x \in formats : x \notin {"json", "forward", "simple"}
       THEN Answer("handle_setlogformat", <<Reply("Invalid arguments")>>)
       ELSE Setting("handle_setlogformat", ChannelId, "logformat", formats, dbOk,
                    "Set logformat for this channel")

\* lines 289-312: handle_setlog on "/setlog" forwarded from the log channel
HandleSetlog(user, dbOk) ==
    /\ UNCHANGED OtherVars
    /\ IF user \notin ChatAdministrators(GroupId)
       THEN Answer("handle_setlog", <<Reply("Access denied")>>)
       ELSE Setting("handle_setlog", GroupId, "log_channel_id", Some(ChannelId), dbOk,
                    "Set log channel")

\* lines 314-328: the handler of "/unsetlog"
HandleUnsetlog(user, dbOk) ==
    /\ UNCHANGED OtherVars
    /\ IF user \notin ChatAdministrators(GroupId)
       THEN Answer("handle_unsetlog", <<Reply("Access denied")>>)
       ELSE Setting("handle_unsetlog", GroupId, "log_channel_id", None, dbOk,
                    "Unset log channel")

InitSettings == Start(EmptyDict)

SetGet ==
    \E user \in Users, action \in {"SET", "GET"}, key \in BoolKeys,
       val \in {"yes", "no", "maybe"}, dbOk \in BOOLEAN :
        HandleSetGet(user, action, key, val, dbOk)

Setlogformat ==
    \E user \in Users, formats \in LogFormats \cup {{"simple", "xml"}}, dbOk \in BOOLEAN :
        HandleSetlogformat(user, formats, dbOk)

Setlog == \E user \in Users, dbOk \in BOOLEAN : HandleSetlog(user, dbOk)

Unsetlog == \E user \in Users, dbOk \in BOOLEAN : HandleUnsetlog(user, dbOk)

NextSettings == SetGet \/ Setlogformat \/ Setlog \/ Unsetlog

SpecSettings == InitSettings /\ [][NextSettings]_vars

\* -------------------------------------------------------------- new members
\* the users of msg.new_chat_members: a person, the bot itself and two other bots
Human == [id |-> 20, is_bot |-> FALSE, username |-> Some("alice")]
OwnBot == [id |-> 21, is_bot |-> TRUE, username |-> Some("graphenebot")]
SpamBot == [id |-> 22, is_bot |-> TRUE, username |-> Some("spambot")]
OtherBot == [id |-> 23, is_bot |-> TRUE, username |-> Some("otherbot")]

Members == {Human, OwnBot, SpamBot, OtherBot}

MemberLists == UNION {[1..n -> Members] : n \in 1..MaxMembers}

Kick(user_id, failing) ==
    [call |-> "kick_chat_member", ok |-> user_id \notin failing, user_id |-> user_id]

\* every bot kicked, the bot itself included
ShouldKickAnyBot(user) == user.is_bot

\* line 167: user.is_bot and user.username != 'graphenebot'
ShouldKick(user) == user.is_bot /\ user.username # Some("graphenebot")

\* lines 166-168: the loop over msg.new_chat_members; a kick that raises ends it
RECURSIVE KickLoop(_, _)
KickLoop(members, failing) ==
    IF members = <<>> THEN <<>>
    ELSE IF ~ShouldKick(Head(members)) THEN KickLoop(Tail(members), failing)
    ELSE IF Head(members).id \in failing THEN <<Kick(Head(members).id, failing)>>
    ELSE <<Kick(Head(members).id, failing)>> \o KickLoop(Tail(members), failing)

\* lines 161-168: handle_new_chat_member, as the calls it issues
handle_new_chat_member(actor, members, failing) ==
    IF actor \in ChatAdministrators(GroupId) THEN <<>> ELSE KickLoop(members, failing)

\* the sets of kicks that fail during one handler; a kick that is not issued
\* cannot fail
KickFailSets(actor, members) ==
    {f \in SUBSET {m.id : m \in Members} :
        \A id \in f : \E c \in Range(handle_new_chat_member(actor, members, f)) :
            c.user_id = id}

\* handle_new_chat_member(msg) issuing the calls cs
Joined(actor, members, cs) ==
    /\ msg' = [message_id |-> 0, chat_id |-> GroupId, from_user |-> actor,
               new_chat_members |-> members]
    /\ calls' = cs
    /\ raised' = IF cs # <<>> /\ ~cs[Len(cs)].ok THEN "ApiException" ELSE "none"
    /\ op' = "handle_new_chat_member"
    /\ UNCHANGED <<dbconfig, group_config, dbuser, dbevent, delete_events, deleted,
                   now, reasons, answers, ret, nsets, nmsgs, nticks>>

HandleNewChatMember ==
    \E actor \in Users, members \in MemberLists :
    \E failing \in KickFailSets(actor, members) :
        Joined(actor, members, handle_new_chat_member(actor, members, failing))

InitMembers == Start(EmptyDict)

NextMembers == HandleNewChatMember

SpecMembers == InitMembers /\ [][NextMembers]_vars

\* ------------------------------------------------------- the settings store
\* the keys given to set_setting and get_setting: valid ones and one outside
\* GROUP_SETTING_KEYS
StoreKeys == {"links", "kick", "bogus"}

\* the db.config collections the store runs start from
StoreInits == {RulesOff(keys) : keys \in SUBSET {"links", "publog"}}

\* the arguments of a call of set_setting; again: the call before it was a
\* call of set_setting with the same arguments that returned
SetArgs(group_id, key, val) ==
    [message_id |-> 0, group_id |-> group_id, key |-> key, val |-> val,
     again |-> /\ op = "set_setting" /\ raised = "none"
               /\ msg.group_id = group_id /\ msg.key = key /\ msg.val = val]

\* a call of set_setting(db, group_config, group_id, key, val) with the result r
SetDone(group_id, key, val, dbOk, r) ==
    /\ dbconfig' = r.db
    /\ group_config' = r.cfg
    /\ raised' = r.raised
    /\ calls' = IF r.raised = "AssertionError" THEN <<>> ELSE <<DbUpdate(dbOk)>>
    /\ msg' = SetArgs(group_id, key, val)
    /\ op' = "set_setting"
    /\ ret' = None
    /\ nsets' = nsets + 1
    /\ UNCHANGED <<dbuser, dbevent, delete_events, deleted, now, reasons, answers,
                   nmsgs, nticks>>

SetSetting ==
    /\ nsets < MaxSets
    /\ \E group_id \in {GroupId, ChannelId}, key \in StoreKeys, val \in BOOLEAN,
          dbOk \in BOOLEAN :
          SetDone(group_id, key, val, dbOk,
                  set_setting(dbconfig, group_config, group_id, key, val, dbOk))

\* a call of get_setting(group_config, group_id, key, default) with the result r
GetDone(group_id, key, r) ==
    /\ ret' = r.ret
    /\ raised' = r.raised
    /\ calls' = <<>>
    /\ msg' = [message_id |-> 0, group_id |-> group_id, key |-> key]
    /\ op' = "get_setting"
    /\ UNCHANGED <<dbconfig, group_config, dbuser, dbevent, delete_events, deleted,
                   now, reasons, answers, nsets, nmsgs, nticks>>

GetSetting ==
    \E group_id \in {GroupId, ChannelId}, key \in StoreKeys, default \in BOOLEAN :
        GetDone(group_id, key, get_setting_call(group_config, group_id, key, default))

InitStore == \E store \in StoreInits : Start(store)

NextStore == SetSetting \/ GetSetting

SpecStore == InitStore /\ [][NextStore]_vars

\* ------------------------------------------------------ username resolutions
\* the usernames given to process_user_type
Usernames == {<<"spamgroup">>, <<"preico">>, <<"PreICO">>}

Fetch(username) == [call |-> "fetch_user_type", ok |-> TRUE, username |-> username]

\* a call of process_user_type(db, username) with the result r
Resolved(username, net, r) ==
    /\ dbuser' = r.cache
    /\ ret' = Some(r.type)
    /\ calls' = IF r.fetched THEN <<Fetch(Lower(username))>> ELSE <<>>
    /\ msg' = [message_id |-> 0, username |-> username]
    /\ answers' = net
    /\ op' = "process_user_type"
    /\ raised' = "none"
    /\ UNCHANGED <<dbconfig, group_config, dbevent, delete_events, deleted, now,
                   reasons, nsets, nmsgs, nticks>>

ProcessUserType ==
    \E username \in Usernames, net \in [NetNames -> FetchResults] :
        Resolved(username, net, process_user_type(dbuser, net, username))

InitResolve == Start(EmptyDict)

NextResolve == ProcessUserType

SpecResolve == InitResolve /\ [][NextResolve]_vars

\* ------------------------------------------------------------------- claims
\* the last handler was handle_any_msg
WasMsg == op = "handle_any_msg"

\* the last handle_any_msg classified its message as to-delete
Flagged == WasMsg /\ reasons # <<>>

\* the sender of the last message is not an administrator of its chat
SenderNotAdmin == msg.from_user \notin ChatAdministrators(msg.chat_id)

\* the value of `reason` when the classification ended
LastReason == reasons[Len(reasons)]

\* the call named name was issued by the last handler, and failed
Failed(name) == \E i \in DOMAIN calls : calls[i] = [call |-> name, ok |-> FALSE]

Issued(name) == name \in CallSet(calls)

AuditCalls == {"forward_message", "send_json", "send_simple"}

\* C1: a message classified as to-delete whose sender is not an administrator
\* has delete_message issued for it, whatever fails among the notice and the
\* audit sends.
C1_DeleteAlwaysIssued ==
    (Flagged /\ SenderNotAdmin) => Issued("delete_message")

C1_Witness ==
    /\ Flagged /\ SenderNotAdmin /\ Issued("delete_message")
    /\ Failed("send_notice") \/ \E a \in AuditCalls : Failed(a)

\* C2 as stated: whenever delete_message is issued for a message, a
\* DeletionEvent for that message is in db.event.
C2_EventBeforeDelete ==
    (WasMsg /\ Issued("delete_message"))
        => \E e \in dbevent : e.message_id = msg.message_id /\ e.type = "delete_msg"

\* C2 amended: delete_message is issued only after save_event was attempted for
\* the message; when the write succeeded the DeletionEvent with the reason is
\* in db.event, when it failed the message is deleted with no event.
C2_SaveAttemptedBeforeDelete ==
    (WasMsg /\ Issued("delete_message")) =>
        /\ calls[1].call = "save_event"
        /\ calls[Len(calls)].call = "delete_message"
        /\ calls[1].ok =>
              \E e \in dbevent : /\ e.message_id = msg.message_id
                                 /\ e.type = "delete_msg"
                                 /\ e.reason = LastReason
        /\ ~calls[1].ok =>
              /\ \A e \in dbevent : e.message_id # msg.message_id
              /\ Len(calls) = 2

C2_Witness ==
    /\ WasMsg /\ Issued("delete_message") /\ calls[1].ok
    /\ \E e \in dbevent : e.message_id = msg.message_id /\ e.reason = "external link"

\* C3: handling a message of an administrator issues no call, writes no
\* event and leaves the throttle map as it was, whatever the classification.
C3_AdminExempt ==
    [][(nmsgs' = nmsgs + 1 /\ msg'.from_user \in ChatAdministrators(msg'.chat_id))
          => /\ calls' = <<>>
             /\ dbevent' = dbevent
             /\ delete_events' = delete_events
             /\ deleted' = deleted]_vars

C3_Witness == Flagged /\ ~SenderNotAdmin /\ calls = <<>>

\* C4 as stated: once a mention rule has flagged the message with an "@-link"
\* reason, that reason is the recorded one, also for a forward with
\* `forwarded` enabled.
C4_FirstMatchWins ==
    (Flagged /\ reasons[1] \in {"@-link to group", "@-link to channel"})
        => /\ LastReason = reasons[1]
           /\ \A e \in dbevent : e.message_id = msg.message_id => e.reason = reasons[1]

\* the type the first username of the caption resolves to
CaptionMentionType ==
    LET us == find_username_links(CaptionOrEmpty(msg))
        u == Lower(LStripAt(us[1]))
    IN IF us = <<>> THEN ""
       ELSE IF u \in DOMAIN dbuser THEN dbuser[u]
       ELSE fetch_user_type(answers, u)

\* C5 as stated: a message without text, spans and forward origin, from a
\* non-administrator, whose caption mentions a group while `groups` is
\* enabled, is classified (true, "caption @-link to group") and deleted.
C5_CaptionRuleReached ==
    (/\ WasMsg /\ msg.text = None /\ msg.entities = <<>> /\ ~msg.forward
     /\ SenderNotAdmin
     /\ CaptionMentionType = "group"
     /\ get_setting(group_config, msg.chat_id, "groups", TRUE))
        => /\ reasons = <<"caption @-link to group">>
           /\ Issued("delete_message")

\* the log channel of the chat of the last message, and the formats it asks for
LogChannel == get_setting(group_config, msg.chat_id, "log_channel_id", None)

Requested == get_setting(group_config, LogChannel[1], "logformat", {"simple"})

\* the last handle_any_msg reached the sends to a log channel
AuditReached ==
    /\ Flagged /\ SenderNotAdmin
    /\ calls[1] = [call |-> "save_event", ok |-> TRUE]
    /\ ~Failed("send_notice")
    /\ LogChannel # None

NoticeStep ==
    /\ nmsgs' = nmsgs + 1
    /\ reasons' # <<>>
    /\ msg'.from_user \notin ChatAdministrators(msg'.chat_id)
    /\ calls'[1] = [call |-> "save_event", ok |-> TRUE]
    /\ get_setting(group_config, msg'.chat_id, "publog", TRUE)

NoticeSent == \E i \in DOMAIN calls' : calls'[i].call = "send_notice"

\* C7 as stated: the notice is sent on the first flagged message of a pair and
\* again from exactly 3600 seconds after the recorded time on.
C7_AllowedFrom3600 ==
    [][NoticeStep =>
         LET key == <<msg'.chat_id, msg'.from_user>>
         IN NoticeSent <=> (key \notin DOMAIN delete_events
                              \/ now - delete_events[key] >= 3600)]_vars

\* C7 amended: the notice is sent on the first flagged message of a pair and
\* again only later than 3600 seconds after the recorded time; at exactly 3600
\* seconds it is still suppressed.
C7_AllowedAfter3600 ==
    [][NoticeStep =>
         LET key == <<msg'.chat_id, msg'.from_user>>
         IN NoticeSent <=> (key \notin DOMAIN delete_events
                              \/ now - delete_events[key] > 3600)]_vars

C7_Witness ==
    /\ Flagged /\ SenderNotAdmin
    /\ calls[1] = [call |-> "save_event", ok |-> TRUE]
    /\ get_setting(group_config, msg.chat_id, "publog", TRUE)
    /\ ~Issued("send_notice")
    /\ \E e \in dbevent : /\ e.message_id # msg.message_id
                          /\ e.from_user = msg.from_user
                          /\ e.date + 3600 = now
    /\ delete_events[<<msg.chat_id, msg.from_user>>] = now

\* a step of handle_any_msg on a flagged message of a non-administrator
DeletionStep ==
    /\ nmsgs' = nmsgs + 1
    /\ reasons' # <<>>
    /\ msg'.from_user \notin ChatAdministrators(msg'.chat_id)

C9_FailedSetKeepsCache ==
    [][(/\ nsets' = nsets + 1
        /\ calls' # <<>>
        /\ calls'[1] = [call |-> "find_one_and_update", ok |-> FALSE])
          => /\ group_config' = group_config
             /\ dbconfig' = dbconfig
             /\ raised' = "PyMongoError"
             /\ Len(calls') = 1]_vars

C9_Witness ==
    /\ op \in {"handle_set_get", "handle_setlogformat", "handle_setlog", "handle_unsetlog"}
    /\ raised = "PyMongoError"
    /\ calls = <<[call |-> "find_one_and_update", ok |-> FALSE]>>
    /\ group_config # EmptyDict

LinkReasons == {"external link", "caption external link"}

\* C10: in a chat whose `links` setting is false no message is flagged with
\* the reason "external link" or "caption external link".
C10_LinksOffNoLinkReason ==
    (WasMsg /\ ~get_setting(group_config, msg.chat_id, "links", TRUE))
        => /\ \A i \in DOMAIN reasons : reasons[i] \notin LinkReasons
           /\ \A e \in dbevent : e.reason \notin LinkReasons

C10_Witness ==
    /\ WasMsg /\ ~get_setting(group_config, msg.chat_id, "links", TRUE)
    /\ \E i \in DOMAIN msg.entities : msg.entities[i].type = "url"
    /\ find_external_links(CaptionOrEmpty(msg)) # <<>>
    /\ reasons = <<>>
    /\ raised = "none"

\* the reasons of the mention rules
MentionReasons == {"@-link to group", "@-link to channel",
                   "caption @-link to group", "caption @-link to channel"}

\* the links of the last message: the hosts of its url and text_link spans,
\* and the bare links of its caption, lowercased
SpanHosts ==
    {EntityHost(msg.text[1], msg.entities[i]) :
        i \in {j \in DOMAIN msg.entities : msg.entities[j].type \in {"url", "text_link"}}}

CaptionHosts ==
    LET ls == find_external_links(CaptionOrEmpty(msg))
    IN {Lower(ls[i]) : i \in DOMAIN ls}

\* C11 as stated: a message whose links all have a host on the
\* domain-exception list is not flagged with a link reason, whatever `links`.
C11_ExceptedLinkNeverFlagged ==
    (/\ WasMsg
     /\ SpanHosts \cup CaptionHosts # {}
     /\ SpanHosts \cup CaptionHosts \subseteq LINKS_EXCEPTIONS)
        => \A i \in DOMAIN reasons : reasons[i] \notin LinkReasons

\* the type the username u resolves to during the last handle_any_msg
ResolvedType(u) ==
    IF u \in DOMAIN dbuser THEN dbuser[u] ELSE fetch_user_type(answers, u)

\* C12: when no username resolves to group or channel, no mention rule flags
\* the message, whatever the settings: not the mention spans, not the
\* free-text "@ username", not the caption mentions.
C12_UserMentionNeverFlagged ==
    (WasMsg /\ \A u \in NetNames : ResolvedType(u) \notin {"group", "channel"})
        => \A i \in DOMAIN reasons : reasons[i] \notin MentionReasons

C12_Witness ==
    /\ WasMsg /\ raised = "none" /\ reasons = <<>>
    /\ \E i \in DOMAIN msg.entities : msg.entities[i].type = "mention"
    /\ find_username_links(CaptionOrEmpty(msg)) # <<>>
    /\ <<"spamgroup">> \in DOMAIN dbuser /\ dbuser[<<"spamgroup">>] = "user"
    /\ get_setting(group_config, msg.chat_id, "groups", TRUE)

\* span i of the last message is a hyperlink the link rule flags
FlaggableLinkSpan(i) ==
    /\ msg.entities[i].type \in {"url", "text_link"}
    /\ get_setting(group_config, msg.chat_id, "links", TRUE)
    /\ EntityHost(msg.text[1], msg.entities[i]) \notin LINKS_EXCEPTIONS

\* the username of the mention span i of the last message, lowercased
SpanUsername(i) ==
    Lower(LStripAt(Slice(msg.text[1], msg.entities[i].offset, msg.entities[i].length)))

\* span i of the last message is a mention of a group the mention rule flags
FlaggableMentionSpan(i) ==
    /\ msg.entities[i].type = "mention"
    /\ SpanUsername(i) \notin USERNAME_EXCEPTIONS
    /\ ResolvedType(SpanUsername(i)) = "group"
    /\ get_setting(group_config, msg.chat_id, "groups", TRUE)

\* C18 as stated: a message with a flaggable hyperlink span and a flaggable
\* mention span is flagged "external link", whichever span comes first.
C18_RuleOrderDecides ==
    (/\ WasMsg
     /\ \E i \in DOMAIN msg.entities : FlaggableLinkSpan(i)
     /\ \E j \in DOMAIN msg.entities : FlaggableMentionSpan(j))
        => reasons = <<"external link">>

\* C19 as stated: a message that mentions no username other than excepted
\* ones is not flagged with a mention reason, in the spans, in the free text
\* and in the caption, whatever the excepted username resolves to.
C19_ExceptedUsernameExempt ==
    (/\ WasMsg
     /\ \E u \in USERNAME_EXCEPTIONS : u[1] \in WordsOf(msg)
     /\ \A u \in NetNames : u[1] \in WordsOf(msg) => u \in USERNAME_EXCEPTIONS)
        => \A i \in DOMAIN reasons : reasons[i] \notin MentionReasons

\* C13: process_user_type caches no empty result: on a cache miss the network
\* is asked; an empty answer writes no entry and returns the empty type, so the
\* next resolution of the same username asks the network again; db.user changes
\* only by the entry of a non-empty answer.
C13_NoNegativeCaching ==
    [][op' = "process_user_type" =>
         LET u == Lower(msg'.username)
             answer == fetch_user_type(answers', u)
         IN /\ u \notin DOMAIN dbuser => calls' = <<Fetch(u)>>
            /\ (u \notin DOMAIN dbuser /\ answer = "")
                  => (dbuser' = dbuser /\ ret' = Some(""))
            /\ dbuser' # dbuser
                  => (u \notin DOMAIN dbuser /\ answer # ""
                      /\ dbuser' = DictSet(dbuser, u, answer))
            /\ (op = "process_user_type" /\ Lower(msg.username) = u
                  /\ calls # <<>> /\ ret = Some(""))
                  => calls' = <<Fetch(u)>>]_vars

C13_Witness ==
    /\ op = "process_user_type"
    /\ ret = Some("") /\ calls = <<Fetch(Lower(msg.username))>>
    /\ Lower(msg.username) \notin DOMAIN dbuser
    /\ dbuser # EmptyDict

\* C14: db.config and the cache never hold a key outside GROUP_SETTING_KEYS;
\* set_setting and get_setting with such a key fail and change neither.
C14_KeysClosed ==
    [][/\ \A k \in DOMAIN dbconfig' \cup DOMAIN group_config' :
             k[2] \in GROUP_SETTING_KEYS
       /\ (op' \in {"set_setting", "get_setting"} /\ msg'.key \notin GROUP_SETTING_KEYS)
             => /\ raised' = "AssertionError"
                /\ calls' = <<>> /\ ret' = None
                /\ dbconfig' = dbconfig
                /\ group_config' = group_config]_vars

C14_Witness ==
    /\ op = "set_setting" /\ msg.key \notin GROUP_SETTING_KEYS
    /\ raised = "AssertionError"
    /\ nsets = 2 /\ group_config # EmptyDict

\* C16: set_setting called again with the arguments of a call that returned
\* issues a second persistence write and leaves db.config and the cache as the
\* first call left them, with get_setting returning the value.
C16_SetTwiceSameState ==
    [][(op' = "set_setting" /\ msg'.again) =>
         /\ calls = <<DbUpdate(TRUE)>>
         /\ Len(calls') = 1 /\ calls'[1].call = "find_one_and_update"
         /\ dbconfig' = dbconfig
         /\ group_config' = group_config
         /\ get_setting(group_config', msg'.group_id, msg'.key, ~msg'.val) = msg'.val]_vars

C16_Witness ==
    /\ op = "set_setting" /\ msg.again
    /\ raised = "none" /\ calls = <<DbUpdate(TRUE)>>
    /\ get_setting(group_config, msg.group_id, msg.key, ~msg.val) = msg.val
    /\ get_setting(dbconfig, msg.group_id, msg.key, ~msg.val) = msg.val

\* C20: the cache, loaded from db.config at start-up, and db.config hold the
\* same value for every (chat, key) after any sequence of calls of
\* set_setting, failed ones included.
C20_CacheEqualsStore ==
    /\ DOMAIN group_config = DOMAIN dbconfig
    /\ \A k \in DOMAIN dbconfig : group_config[k] = dbconfig[k]

C20_Witness ==
    /\ op = "set_setting" /\ raised = "PyMongoError" /\ nsets >= 2
    /\ <<GroupId, "links">> \in DOMAIN group_config
    /\ group_config[<<GroupId, "links">>]
    /\ dbconfig[<<GroupId, "links">>]

\* no boolean setting of the chat has ever been set
NeverSet == \A k \in BoolKeys : <<GroupId, k>> \notin DOMAIN group_config

\* the last handler was handle_set_get answering a /graphene_get
AnsweredGet ==
    /\ op = "handle_set_get"
    /\ Len(calls) = 1 /\ calls[1].call = "reply_to"
    /\ calls[1].text \in {"None", "True", "False"}

\* C15 as stated: in a chat where no boolean setting was ever set, the
\* classifier applies the gated rules and /graphene_get reads true.
C15_UnsetReadsTrue ==
    /\ (NeverSet /\ AnsweredGet) => calls[1].text = "True"
    /\ (/\ NeverSet /\ WasMsg /\ raised = "none"
        /\ \/ msg.forward
           \/ \E i \in DOMAIN msg.entities :
                 \/ msg.entities[i].type = "email"
                 \/ FlaggableLinkSpan(i)
                 \/ FlaggableMentionSpan(i))
          => Flagged

\* the last handler was handle_new_chat_member
WasJoin == op = "handle_new_chat_member"

\* the member was removed: its kick was issued and went through
Removed(user) ==
    \E c \in Range(calls) : c.call = "kick_chat_member" /\ c.user_id = user.id /\ c.ok

\* a bot other than the bot itself, added by somebody who is no administrator
Removable(user) ==
    /\ user.is_bot
    /\ user.username # Some("graphenebot")
    /\ msg.from_user \notin ChatAdministrators(msg.chat_id)

TellingCalls == {"send_notice"} \cup AuditCalls

\* C21: the notice and the audit sends of a message are issued only after
\* save_event has written the DeletionEvent of the message; when the write
\* fails there is no notice, no audit send and no update of the throttle map.
C21_EventBeforeTelling ==
    [][nmsgs' = nmsgs + 1 =>
         /\ (\E i \in DOMAIN calls' : calls'[i].call \in TellingCalls)
               => /\ calls'[1] = [call |-> "save_event", ok |-> TRUE]
                  /\ \E e \in dbevent' : /\ e.message_id = msg'.message_id
                                          /\ e.type = "delete_msg"
         /\ (\E i \in DOMAIN calls' : calls'[i] = [call |-> "save_event", ok |-> FALSE])
               => /\ \A i \in DOMAIN calls' : calls'[i].call \notin TellingCalls
                  /\ delete_events' = delete_events
                  /\ dbevent' = dbevent]_vars

C21_Witness ==
    /\ Flagged /\ SenderNotAdmin
    /\ Failed("save_event")
    /\ get_setting(group_config, msg.chat_id, "publog", TRUE)
    /\ LogChannel # None
    /\ CallSet(calls) = {"save_event", "delete_message"}
    /\ <<msg.chat_id, msg.from_user>> \notin DOMAIN delete_events

\* C22: a username that has an entry in db.user resolves, in any letter case,
\* to the stored type without a call of fetch_user_type and without a write;
\* no resolution changes or removes an entry of db.user.
C22_CachedTypeIsStable ==
    [][op' = "process_user_type" =>
         /\ Lower(msg'.username) \in DOMAIN dbuser
               => /\ ret' = Some(dbuser[Lower(msg'.username)])
                  /\ calls' = <<>>
                  /\ dbuser' = dbuser
         /\ \A u \in DOMAIN dbuser : u \in DOMAIN dbuser' /\ dbuser'[u] = dbuser[u]]_vars

C22_Witness ==
    /\ op = "process_user_type"
    /\ msg.username = <<"PreICO">>
    /\ calls = <<>>
    /\ <<"preico">> \in DOMAIN dbuser
    /\ ret = Some(dbuser[<<"preico">>])
    /\ answers[<<"preico">>] # dbuser[<<"preico">>]

====
